---- MODULE Spec2Model ----
(***************************************************************************)
(* Model of the guard-pattern simplifier of Charon                         *)
(* (charon/src/simplify_binops.rs) over the structured expression tree.    *)
(*                                                                         *)
(* Trees are records tagged by a field k.  A run of the simplifier either  *)
(* returns a tree or panics (assert! / unreachable!); a panic is the value *)
(* ABORT, which every enclosing call propagates, as unwinding does.        *)
(***************************************************************************)
EXTENDS Integers, Sequences, FiniteSets, TLC

VARIABLES input,   \* the tree handed to simplify_exp (a function body)
          output,  \* what the first run of simplify_exp produced: a tree or ABORT
          again,   \* what simplify_exp produced when run on output
          runs,    \* how many times simplify_exp has been applied (0, 1, 2)
          defs,    \* the batch of function definitions handed to simplify
          result,  \* what simplify produced for the batch
          env,     \* the values of the variables before a body is executed
          orig,    \* the outcome of executing input as it was before the pass
          coll,    \* the outcome of executing output, the simplified body
          stack,   \* the calls of simplify_exp still to be made, the next one first
          ended,   \* how the run of simplify_exp ended: "no", "returned", "aborted"
          reordered,   \* rust_to_local_ids: the declaration groups and their info
          files_info,  \* rust_to_local_ids: the file names of the crate
          ordered,     \* rust_to_local_ids: its local variables, the result in the making
          pc           \* rust_to_local_ids: where the function stands

vars == <<input, output, again, runs, defs, result, env, orig, coll,
          stack, ended, reordered, files_info, ordered, pc>>

\* the variables of the step-by-step run of simplify_exp
callVars == <<stack, ended>>
\* the variables of rust_to_local_ids
idVars == <<reordered, files_info, ordered, pc>>

----------------------------------------------------------------------------
(* Places, operands, rvalues: expressions.rs *)

Place(var_id, projection) == [var_id |-> var_id, projection |-> projection]

Tuple(n) == [k |-> "Tuple", n |-> n]
Adt(id) == [k |-> "Adt", id |-> id]
Field(kind, fid) == [k |-> "Field", kind |-> kind, fid |-> fid]
Deref == [k |-> "Deref"]

Copy(p) == [k |-> "Copy", place |-> p]
Move(p) == [k |-> "Move", place |-> p]
Constant(ty, cv) == [k |-> "Constant", ty |-> ty, cv |-> cv]

\* OperandConstantValue::ConstantValue(ConstantValue::Scalar(v)); v is a
\* signed ("Int") or unsigned ("Uint") scalar
Scalar(signed, v) ==
    [k |-> "ConstantValue", cv |-> [k |-> "Scalar", is_int |-> signed, v |-> v]]
ConstUnit == [k |-> "Unit"]

BinOp == {"BitXor", "BitAnd", "BitOr", "Eq", "Lt", "Le", "Ne", "Ge", "Gt",
          "Div", "Rem", "Add", "Sub", "Mul", "Shl", "Shr"}

Use(op) == [k |-> "Use", op |-> op]
BinaryOp(binop, op1, op2) == [k |-> "BinaryOp", binop |-> binop, op1 |-> op1, op2 |-> op2]

----------------------------------------------------------------------------
(* Statements and expressions *)

Assign(p, rv) == [k |-> "Assign", place |-> p, rv |-> rv]
AssertSt(cond, expected) == [k |-> "Assert", cond |-> cond, expected |-> expected]
Nop == [k |-> "Nop"]
Return == [k |-> "Return"]
Break(n) == [k |-> "Break", n |-> n]
Continue(n) == [k |-> "Continue", n |-> n]

Statement(st) == [k |-> "Statement", st |-> st]
Sequence(e1, e2) == [k |-> "Sequence", e1 |-> e1, e2 |-> e2]
Loop(body) == [k |-> "Loop", body |-> body]
If(e1, e2) == [k |-> "If", e1 |-> e1, e2 |-> e2]
\* targets: the LinkedHashMap as the sequence of its <<value, branch>> entries,
\* in insertion order
SwitchInt(int_ty, targets, otherwise) ==
    [k |-> "SwitchInt", int_ty |-> int_ty, targets |-> targets, otherwise |-> otherwise]
Switch(op, targets) == [k |-> "Switch", op |-> op, targets |-> targets]

\* A panic of the simplifier (assert! failed, unreachable! reached)
ABORT == [k |-> "Abort"]
IsAbort(e) == e.k = "Abort"

----------------------------------------------------------------------------
(* simplify_binops.rs *)

\* a variant that does not compare the last projection element with pelem
check_places_similar_but_last_proj_elem_anyelem(place, pelem, full_place) ==
    IF /\ place.var_id = full_place.var_id
       /\ Len(place.projection) + 1 = Len(full_place.projection)
    THEN ~ \E i \in 1..Len(place.projection) :
               place.projection[i] # full_place.projection[i]
    ELSE FALSE

\* a variant that does not compare the variables of the two places
check_places_similar_but_last_proj_elem_anyvar(place, pelem, full_place) ==
    IF Len(place.projection) + 1 = Len(full_place.projection)
    THEN IF \E i \in 1..Len(place.projection) :
               place.projection[i] # full_place.projection[i]
         THEN FALSE
         ELSE pelem = full_place.projection[Len(place.projection) + 1]
    ELSE FALSE

check_places_similar_but_last_proj_elem(place, pelem, full_place) ==
    IF /\ place.var_id = full_place.var_id
       /\ Len(place.projection) + 1 = Len(full_place.projection)
    THEN IF \E i \in 1..Len(place.projection) :
               place.projection[i] # full_place.projection[i]
         THEN FALSE
         ELSE pelem = full_place.projection[Len(place.projection) + 1]
    ELSE FALSE

binop_requires_assert_after(binop) ==
    CASE binop \in {"BitXor", "BitAnd", "BitOr", "Eq", "Lt", "Le", "Ne", "Ge", "Gt",
                    "Div", "Rem"} -> FALSE
      [] binop \in {"Add", "Sub", "Mul", "Shl", "Shr"} -> TRUE

\* a variant that also asks for an assert before the shifts
binop_requires_assert_before_shifts(binop) ==
    CASE binop \in {"BitXor", "BitAnd", "BitOr", "Eq", "Lt", "Le", "Ne", "Ge", "Gt",
                    "Add", "Sub", "Mul"} -> FALSE
      [] binop \in {"Div", "Rem", "Shl", "Shr"} -> TRUE

binop_requires_assert_before(binop) ==
    CASE binop \in {"BitXor", "BitAnd", "BitOr", "Eq", "Lt", "Le", "Ne", "Ge", "Gt",
                    "Add", "Sub", "Mul", "Shl", "Shr"} -> FALSE
      [] binop \in {"Div", "Rem"} -> TRUE

binop_can_fail(binop) ==
    binop_requires_assert_after(binop) \/ binop_requires_assert_before(binop)

IsAssignBinop(exp) ==
    /\ exp.k = "Statement"
    /\ exp.st.k = "Assign"
    /\ exp.st.rv.k = "BinaryOp"

\* a variant that does not check the place moved by statement 3
check_if_simplifiable_binop_then_assert_lax(exp1, exp2, exp3) ==
    IF /\ IsAssignBinop(exp1)
       /\ exp2.k = "Statement" /\ exp2.st.k = "Assert" /\ exp2.st.cond.k = "Move"
       /\ exp3.k = "Statement" /\ exp3.st.k = "Assign"
       /\ exp3.st.rv.k = "Use" /\ exp3.st.rv.op.k = "Move"
    THEN /\ binop_requires_assert_after(exp1.st.rv.binop)
         /\ ~exp2.st.expected
         /\ check_places_similar_but_last_proj_elem(
                exp1.st.place, Field(Tuple(2), 1), exp2.st.cond.place)
    ELSE FALSE

\* TRUE when the function returns, FALSE when it panics
check_if_simplifiable_binop_then_assert(exp1, exp2, exp3) ==
    IF /\ IsAssignBinop(exp1)
       /\ exp2.k = "Statement" /\ exp2.st.k = "Assert" /\ exp2.st.cond.k = "Move"
       /\ exp3.k = "Statement" /\ exp3.st.k = "Assign"
       /\ exp3.st.rv.k = "Use" /\ exp3.st.rv.op.k = "Move"
    THEN /\ binop_requires_assert_after(exp1.st.rv.binop)
         /\ ~exp2.st.expected
         /\ check_places_similar_but_last_proj_elem(
                exp1.st.place, Field(Tuple(2), 1), exp2.st.cond.place)
         /\ check_places_similar_but_last_proj_elem(
                exp1.st.place, Field(Tuple(2), 0), exp3.st.rv.op.place)
    ELSE FALSE

\* "true" / "false": the value returned; "panic": the shape check panicked
check_if_binop_then_assert(exp1, exp2, exp3) ==
    IF IsAssignBinop(exp1)
    THEN IF binop_requires_assert_after(exp1.st.rv.binop)
         THEN IF check_if_simplifiable_binop_then_assert(exp1, exp2, exp3)
              THEN "true" ELSE "panic"
         ELSE "false"
    ELSE "false"

\* a variant that keeps the destination of statement 1 (the temporary)
simplify_binop_then_assert_tmp(exp1, exp2, exp3) ==
    IF /\ exp1.k = "Statement" /\ exp1.st.k = "Assign"
       /\ exp2.k = "Statement" /\ exp2.st.k = "Assert"
       /\ exp3.k = "Statement" /\ exp3.st.k = "Assign"
    THEN Statement(Assign(exp1.st.place, exp1.st.rv))
    ELSE ABORT

simplify_binop_then_assert(exp1, exp2, exp3) ==
    IF /\ exp1.k = "Statement" /\ exp1.st.k = "Assign"
       /\ exp2.k = "Statement" /\ exp2.st.k = "Assert"
       /\ exp3.k = "Statement" /\ exp3.st.k = "Assign"
    THEN Statement(Assign(exp3.st.place, exp1.st.rv))
    ELSE ABORT

\* a variant that accepts any constant in the comparison of statement 1
check_if_simplifiable_assert_then_binop_anyconst(exp1, exp2, exp3) ==
    IF /\ IsAssignBinop(exp1)
       /\ exp1.st.rv.binop = "Eq"
       /\ exp1.st.rv.op1.k = "Copy"
       /\ exp1.st.rv.op2.k = "Constant"
       /\ exp1.st.rv.op2.cv.k = "ConstantValue"
       /\ exp1.st.rv.op2.cv.cv.k = "Scalar"
       /\ exp2.k = "Statement" /\ exp2.st.k = "Assert" /\ exp2.st.cond.k = "Move"
       /\ IsAssignBinop(exp3)
       /\ exp3.st.rv.op2.k = "Move"
    THEN /\ binop_requires_assert_before(exp3.st.rv.binop)
         /\ ~exp2.st.expected
         /\ exp1.st.rv.op1.place = exp3.st.rv.op2.place
         /\ exp1.st.place = exp2.st.cond.place
    ELSE FALSE

\* a variant that does not compare the place tested against zero with the
\* divisor
check_if_simplifiable_assert_then_binop_anyplace(exp1, exp2, exp3) ==
    IF /\ IsAssignBinop(exp1)
       /\ exp1.st.rv.binop = "Eq"
       /\ exp1.st.rv.op1.k = "Copy"
       /\ exp1.st.rv.op2.k = "Constant"
       /\ exp1.st.rv.op2.cv.k = "ConstantValue"
       /\ exp1.st.rv.op2.cv.cv.k = "Scalar"
       /\ exp2.k = "Statement" /\ exp2.st.k = "Assert" /\ exp2.st.cond.k = "Move"
       /\ IsAssignBinop(exp3)
       /\ exp3.st.rv.op2.k = "Move"
    THEN /\ binop_requires_assert_before(exp3.st.rv.binop)
         /\ ~exp2.st.expected
         /\ exp1.st.place = exp2.st.cond.place
         /\ exp1.st.rv.op2.cv.cv.v = 0
    ELSE FALSE

\* TRUE when the function returns, FALSE when it panics
check_if_simplifiable_assert_then_binop(exp1, exp2, exp3) ==
    IF /\ IsAssignBinop(exp1)
       /\ exp1.st.rv.binop = "Eq"
       /\ exp1.st.rv.op1.k = "Copy"
       /\ exp1.st.rv.op2.k = "Constant"
       /\ exp1.st.rv.op2.cv.k = "ConstantValue"
       /\ exp1.st.rv.op2.cv.cv.k = "Scalar"
       /\ exp2.k = "Statement" /\ exp2.st.k = "Assert" /\ exp2.st.cond.k = "Move"
       /\ IsAssignBinop(exp3)
       /\ exp3.st.rv.op2.k = "Move"
    THEN /\ binop_requires_assert_before(exp3.st.rv.binop)
         /\ ~exp2.st.expected
         /\ exp1.st.rv.op1.place = exp3.st.rv.op2.place
         /\ exp1.st.place = exp2.st.cond.place
         /\ exp1.st.rv.op2.cv.cv.v = 0
    ELSE FALSE

check_if_assert_then_binop(exp1, exp2, exp3) ==
    IF IsAssignBinop(exp3)
    THEN IF binop_requires_assert_before(exp3.st.rv.binop)
         THEN IF check_if_simplifiable_assert_then_binop(exp1, exp2, exp3)
              THEN "true" ELSE "panic"
         ELSE "false"
    ELSE "false"

\* a variant that keeps the first statement of the window
simplify_assert_then_binop_first(exp1, exp2, exp3) == exp1

simplify_assert_then_binop(exp1, exp2, exp3) == exp3

\* a variant that forgets the operations with a precondition (Div, Rem)
statement_is_faillible_binop_after(st) ==
    IF st.k = "Assign" /\ st.rv.k = "BinaryOp"
    THEN binop_requires_assert_after(st.rv.binop)
    ELSE FALSE

statement_is_faillible_binop(st) ==
    IF st.k = "Assign" /\ st.rv.k = "BinaryOp"
    THEN binop_can_fail(st.rv.binop)
    ELSE FALSE

\* Expression::Sequence(Box::new(a), Box::new(b)) where computing a or b may
\* have panicked
SequenceOf(a, b) == IF IsAbort(a) \/ IsAbort(b) THEN ABORT ELSE Sequence(a, b)

RECURSIVE simplify_exp(_)

\* targets.into_iter().map(|(v, e)| (v, simplify_exp(e))) collected by
\* LinkedHashMap::from_iter: the same keys in the same order
\* a variant that collects the branches in the reverse order
simplify_targets_reversed(targets) ==
    [i \in 1..Len(targets) |->
        <<targets[Len(targets) + 1 - i][1],
          simplify_exp(targets[Len(targets) + 1 - i][2])>>]

simplify_targets(targets) ==
    [i \in 1..Len(targets) |-> <<targets[i][1], simplify_exp(targets[i][2])>>]

\* a variant that leaves the else arm of an If and the otherwise branch of a
\* SwitchInt as they are
simplify_switch_shallow(op, targets) ==
    IF targets.k = "If"
    THEN LET e1 == simplify_exp(targets.e1)
         IN IF IsAbort(e1) THEN ABORT
            ELSE Switch(op, If(e1, targets.e2))
    ELSE LET tgts == simplify_targets(targets.targets)
         IN IF \E i \in 1..Len(tgts) : IsAbort(tgts[i][2])
            THEN ABORT
            ELSE Switch(op, SwitchInt(targets.int_ty, tgts, targets.otherwise))

simplify_switch(op, targets) ==
    IF targets.k = "If"
    THEN LET e1 == simplify_exp(targets.e1)
             e2 == simplify_exp(targets.e2)
         IN IF IsAbort(e1) \/ IsAbort(e2) THEN ABORT
            ELSE Switch(op, If(e1, e2))
    ELSE LET tgts == simplify_targets(targets.targets)
             otherwise == simplify_exp(targets.otherwise)
         IN IF (\E i \in 1..Len(tgts) : IsAbort(tgts[i][2])) \/ IsAbort(otherwise)
            THEN ABORT
            ELSE Switch(op, SwitchInt(targets.int_ty, tgts, otherwise))

\* a variant whose rebuilt tail forgets the second element of the window
simplify_window_dropping(exp1, exp2, exp3, exp4) ==
    LET c1 == check_if_binop_then_assert(exp1, exp2, exp3)
        c2 == check_if_assert_then_binop(exp1, exp2, exp3)
    IN IF c1 = "panic" THEN ABORT
       ELSE IF c1 = "true"
       THEN SequenceOf(simplify_binop_then_assert(exp1, exp2, exp3), simplify_exp(exp4))
       ELSE IF c2 = "panic" THEN ABORT
       ELSE IF c2 = "true"
       THEN SequenceOf(simplify_assert_then_binop(exp1, exp2, exp3), simplify_exp(exp4))
       ELSE SequenceOf(simplify_exp(exp1), simplify_exp(Sequence(exp3, exp4)))

\* a variant that groups the first two elements of a window it leaves alone
simplify_window_leftnested(exp1, exp2, exp3, exp4) ==
    LET c1 == check_if_binop_then_assert(exp1, exp2, exp3)
        c2 == check_if_assert_then_binop(exp1, exp2, exp3)
    IN IF c1 = "panic" THEN ABORT
       ELSE IF c1 = "true"
       THEN SequenceOf(simplify_binop_then_assert(exp1, exp2, exp3), simplify_exp(exp4))
       ELSE IF c2 = "panic" THEN ABORT
       ELSE IF c2 = "true"
       THEN SequenceOf(simplify_assert_then_binop(exp1, exp2, exp3), simplify_exp(exp4))
       ELSE SequenceOf(SequenceOf(simplify_exp(exp1), simplify_exp(exp2)),
                       simplify_exp(Sequence(exp3, exp4)))

\* a variant that does not simplify what follows a collapsed window
simplify_window_norest(exp1, exp2, exp3, exp4) ==
    LET c1 == check_if_binop_then_assert(exp1, exp2, exp3)
        c2 == check_if_assert_then_binop(exp1, exp2, exp3)
    IN IF c1 = "panic" THEN ABORT
       ELSE IF c1 = "true"
       THEN SequenceOf(simplify_binop_then_assert(exp1, exp2, exp3), exp4)
       ELSE IF c2 = "panic" THEN ABORT
       ELSE IF c2 = "true"
       THEN SequenceOf(simplify_assert_then_binop(exp1, exp2, exp3), exp4)
       ELSE SequenceOf(simplify_exp(exp1),
                       simplify_exp(Sequence(exp2, Sequence(exp3, exp4))))

simplify_window(exp1, exp2, exp3, exp4) ==
    LET c1 == check_if_binop_then_assert(exp1, exp2, exp3)
        c2 == check_if_assert_then_binop(exp1, exp2, exp3)
    IN IF c1 = "panic" THEN ABORT
       ELSE IF c1 = "true"
       THEN SequenceOf(simplify_binop_then_assert(exp1, exp2, exp3), simplify_exp(exp4))
       ELSE IF c2 = "panic" THEN ABORT
       ELSE IF c2 = "true"
       THEN SequenceOf(simplify_assert_then_binop(exp1, exp2, exp3), simplify_exp(exp4))
       ELSE SequenceOf(simplify_exp(exp1),
                       simplify_exp(Sequence(exp2, Sequence(exp3, exp4))))

\* a variant that returns the simplified body of a loop without the Loop node
simplify_exp_unlooped(exp) ==
    CASE exp.k = "Statement" ->
            IF statement_is_faillible_binop(exp.st) THEN ABORT ELSE exp
      [] exp.k = "Switch" -> simplify_switch(exp.op, exp.targets)
      [] exp.k = "Loop" -> simplify_exp(exp.body)
      [] exp.k = "Sequence" ->
            IF exp.e2.k = "Sequence"
            THEN IF exp.e2.e2.k = "Sequence"
                 THEN simplify_window(exp.e1, exp.e2.e1, exp.e2.e2.e1, exp.e2.e2.e2)
                 ELSE SequenceOf(simplify_exp(exp.e1),
                                 simplify_exp(Sequence(exp.e2.e1, exp.e2.e2)))
            ELSE SequenceOf(simplify_exp(exp.e1), simplify_exp(exp.e2))

simplify_exp(exp) ==
    CASE exp.k = "Statement" ->
            IF statement_is_faillible_binop(exp.st) THEN ABORT ELSE exp
      [] exp.k = "Switch" -> simplify_switch(exp.op, exp.targets)
      [] exp.k = "Loop" ->
            LET body == simplify_exp(exp.body)
            IN IF IsAbort(body) THEN ABORT ELSE Loop(body)
      [] exp.k = "Sequence" ->
            IF exp.e2.k = "Sequence"
            THEN IF exp.e2.e2.k = "Sequence"
                 THEN simplify_window(exp.e1, exp.e2.e1, exp.e2.e2.e1, exp.e2.e2.e2)
                 ELSE SequenceOf(simplify_exp(exp.e1),
                                 simplify_exp(Sequence(exp.e2.e1, exp.e2.e2)))
            ELSE SequenceOf(simplify_exp(exp.e1), simplify_exp(exp.e2))

----------------------------------------------------------------------------
(* simplify_def / simplify: a FunDef is its name and its body; a panic of one
   simplify_def unwinds out of the iterator and of simplify *)

simplify_def(def) ==
    LET body == simplify_exp(def.body)
    IN IF IsAbort(body) THEN ABORT ELSE [def EXCEPT !.body = body]

\* a variant that collects the definitions in the reverse order
simplify_reversed(ds) ==
    LET out == [i \in 1..Len(ds) |-> simplify_def(ds[Len(ds) + 1 - i])]
    IN IF \E i \in 1..Len(ds) : out[i] = ABORT
       THEN [status |-> "panicked", defs |-> <<>>]
       ELSE [status |-> "returned", defs |-> out]

simplify(ds) ==
    LET out == [i \in 1..Len(ds) |-> simplify_def(ds[i])]
    IN IF \E i \in 1..Len(ds) : out[i] = ABORT
       THEN [status |-> "panicked", defs |-> <<>>]
       ELSE [status |-> "returned", defs |-> out]

----------------------------------------------------------------------------
(* The statements the inputs are built from.  Variables: 0 the temporary pair
   t, 1 the destination d, 2 and 3 the operands a and b, 4 the boolean
   temporary tmp. *)

Pt == Place(0, <<>>)
Pd == Place(1, <<>>)
Pa == Place(2, <<>>)
Pb == Place(3, <<>>)
Ptmp == Place(4, <<>>)
Pt0 == Place(0, <<Field(Tuple(2), 0)>>)
Pt1 == Place(0, <<Field(Tuple(2), 1)>>)
\* the pair as a field of a dereferenced reference, and its two components
Pq == Place(5, <<Deref>>)
Pq0 == Place(5, <<Deref, Field(Tuple(2), 0)>>)
Pq1 == Place(5, <<Deref, Field(Tuple(2), 1)>>)

CheckedOps == {"Add", "Sub", "Mul", "Shl", "Shr"}
DivOps == {"Div", "Rem"}

StNop == Statement(Nop)
StReturn == Statement(Return)
\* t := copy a <op> copy b
StBinop(op) == Statement(Assign(Pt, BinaryOp(op, Copy(Pa), Copy(Pb))))
\* assert(move t.1 == false)
StCheck == Statement(AssertSt(Move(Pt1), FALSE))
\* d := move t.0
StTake == Statement(Assign(Pd, Use(Move(Pt0))))
\* tmp := copy b == 0
StEqZero == Statement(Assign(Ptmp, BinaryOp("Eq", Copy(Pb), Constant("u32", Scalar(FALSE, 0)))))
\* assert(move tmp == false)
StGuard == Statement(AssertSt(Move(Ptmp), FALSE))
\* d := copy a <op> move b
StDiv(op) == Statement(Assign(Pd, BinaryOp(op, Copy(Pa), Move(Pb))))

\* First statements of a window: the two idioms' first statements and their
\* near misses
S1Pool ==
    {StBinop(op) : op \in CheckedOps} \cup
    { Statement(Assign(Pq, BinaryOp("Add", Copy(Pa), Copy(Pb)))),
      StBinop("BitAnd"),
      StEqZero,
      Statement(Assign(Ptmp, BinaryOp("Eq", Copy(Pb), Constant("i32", Scalar(TRUE, 0))))),
      Statement(Assign(Ptmp, BinaryOp("Eq", Copy(Pb), Constant("u32", Scalar(FALSE, 1))))),
      Statement(Assign(Ptmp, BinaryOp("Eq", Copy(Pa), Constant("u32", Scalar(FALSE, 0))))),
      Statement(Assign(Ptmp, BinaryOp("Eq", Move(Pb), Constant("u32", Scalar(FALSE, 0))))),
      Statement(Assign(Ptmp, BinaryOp("Ne", Copy(Pb), Constant("u32", Scalar(FALSE, 0))))),
      StNop }

S2Pool ==
    { StCheck,
      Statement(AssertSt(Move(Pq1), FALSE)),
      Statement(AssertSt(Move(Pt1), TRUE)),
      Statement(AssertSt(Copy(Pt1), FALSE)),
      Statement(AssertSt(Move(Pt0), FALSE)),
      Statement(AssertSt(Move(Pt), FALSE)),
      StGuard,
      Statement(AssertSt(Move(Ptmp), TRUE)),
      StNop }

S3Pool ==
    { StTake,
      Statement(Assign(Pd, Use(Move(Pq0)))),
      Statement(Assign(Pd, Use(Move(Pt1)))),
      Statement(Assign(Pd, Use(Copy(Pt0)))),
      Statement(Assign(Pd, Use(Move(Place(0, <<Field(Tuple(3), 0)>>))))),
      StDiv("Div"),
      StDiv("Rem"),
      Statement(Assign(Pd, BinaryOp("Div", Copy(Pa), Copy(Pb)))),
      Statement(Assign(Pd, BinaryOp("Div", Copy(Pa), Move(Pa)))),
      Statement(Assign(Pd, BinaryOp("Div", Copy(Pa), Constant("u32", Scalar(FALSE, 2))))),
      StNop }

----------------------------------------------------------------------------
(* The bounded set of input trees *)

\* neutral statements put before a window
MaxPre == 1
\* statements put after a window
MaxPost == 2
\* length of the chains built freely over FreeAlphabet
MaxLen == 4
\* nesting depth of Switch / Loop / Sequence around the base chains
MaxDepth == 2
\* number of function definitions in a batch
MaxDefs == 2

RECURSIVE Chain(_)
\* s1; (s2; (...; sn)): the right-nested chain of a non-empty sequence
Chain(s) == IF Len(s) = 1 THEN s[1] ELSE Sequence(s[1], Chain(Tail(s)))

Nops(n) == [i \in 1..n |-> StNop]
Pres == {Nops(n) : n \in 0..MaxPre}
Posts == {<<>>} \cup {Nops(n) \o <<StReturn>> : n \in 0..(MaxPost - 1)}

WindowInputs ==
    {Chain(pre \o <<s1, s2, s3>> \o post) :
        pre \in Pres, s1 \in S1Pool, s2 \in S2Pool, s3 \in S3Pool, post \in Posts}

FreeAlphabet ==
    {StBinop("Add"), StCheck, StTake, StEqZero, StGuard, StDiv("Div"), StNop}
FreeInputs ==
    {Chain(s) : s \in UNION {[1..m -> FreeAlphabet] : m \in 1..MaxLen}}

SV(v) == [is_int |-> FALSE, v |-> v]
Leaves == {StNop, Statement(Break(0))}
BasePool ==
    { Chain(<<StBinop("Add"), StCheck, StTake, StReturn>>),
      Chain(<<StEqZero, StGuard, StDiv("Div"), StReturn>>),
      Chain(<<StBinop("Mul"), StCheck, StTake>>),
      Chain(<<StBinop("Add"), StCheck, StNop, StReturn>>),
      StBinop("Sub"),
      Chain(<<StNop, Statement(Continue(0))>>),
      StNop }
Wrap(x) ==
    { Loop(x), Sequence(StNop, x), Sequence(x, StReturn),
      Switch(Copy(Pa), SwitchInt("u32", <<(<<SV(1), x>>), (<<SV(2), StNop>>)>>, StReturn)),
      Switch(Copy(Pa), SwitchInt("u32", <<(<<SV(7), StNop>>)>>, x)) } \cup
    UNION {{ Switch(Copy(Pa), If(x, l)),
             Switch(Copy(Pa), If(l, x)) } : l \in Leaves}
RECURSIVE Nested(_)
Nested(d) ==
    IF d = 0 THEN BasePool
    ELSE LET N == Nested(d - 1) IN N \cup UNION {Wrap(x) : x \in N}
NestedInputs == Nested(MaxDepth)

\* several idioms in one chain
MultiInputs ==
    { Chain(<<StBinop("Add"), StCheck, StTake, StEqZero, StGuard, StDiv("Rem"), StReturn>>),
      Chain(<<StEqZero, StGuard, StDiv("Div"), StNop, StBinop("Shl"), StCheck, StTake, StReturn>>),
      Chain(<<StBinop("Add"), StCheck, StTake, StBinop("Sub"), StCheck, StTake, StNop>>),
      Chain(<<StNop, StNop, StBinop("Add"), StCheck, StTake, StBinop("Sub"), StCheck, StTake>>) }

\* Break / Continue under one and two loops, within and beyond the number of
\* enclosing loops
JumpInputs ==
    { Loop(Loop(Chain(<<StBinop("Add"), StCheck, StTake, Statement(Break(1))>>))),
      Loop(Chain(<<StEqZero, StGuard, StDiv("Div"),
                   Switch(Copy(Pa), If(Statement(Break(0)), Statement(Continue(0))))>>)),
      Loop(Chain(<<Loop(Chain(<<StBinop("Mul"), StCheck, StTake, Statement(Break(1))>>)),
                   StNop, Statement(Continue(0))>>)),
      Loop(Chain(<<StBinop("Sub"), StCheck, StTake, Statement(Break(1))>>)),
      Chain(<<StEqZero, StGuard, StDiv("Rem"), Statement(Continue(0))>>) }

\* switches whose branches differ from one another, the values of a SwitchInt
\* not in increasing order
SwitchInputs ==
    { Switch(Copy(Pa),
             If(Chain(<<StBinop("Add"), StCheck, StTake, StReturn>>),
                Chain(<<StEqZero, StGuard, StDiv("Div"), StNop>>))),
      Switch(Move(Pb),
             If(StNop, Chain(<<StBinop("Shl"), StCheck, StTake, StReturn>>))),
      Switch(Copy(Pa),
             SwitchInt("u32",
                       <<(<<SV(3), Chain(<<StBinop("Add"), StCheck, StTake, StReturn>>)>>),
                         (<<SV(1), StNop>>),
                         (<<SV(2), Chain(<<StEqZero, StGuard, StDiv("Rem"), StReturn>>)>>)>>,
                       Chain(<<StBinop("Mul"), StCheck, StTake, StNop>>))),
      Switch(Move(Pb),
             SwitchInt("i8",
                       <<(<<SV(5), StReturn>>), (<<SV(0), StNop>>)>>,
                       Loop(Chain(<<StEqZero, StGuard, StDiv("Div"), Statement(Break(0))>>)))),
      Switch(Copy(Pa), SwitchInt("u32", <<>>, StBinop("Add"))) }

BodyPool ==
    { StReturn,
      Chain(<<StNop, StReturn>>),
      Chain(<<StBinop("Add"), StCheck, StTake, StReturn>>),
      Chain(<<StEqZero, StGuard, StDiv("Div"), StReturn>>),
      Loop(Chain(<<StBinop("Mul"), StCheck, StTake, Statement(Break(0))>>)),
      StBinop("Add"),
      Chain(<<StBinop("Add"), StCheck, StNop, StReturn>>),
      Chain(<<StEqZero, StNop, StDiv("Div"), StReturn>>),
      Chain(<<StBinop("Add"), StCheck, StTake>>),
      Chain(<<StNop, StDiv("Rem")>>) }
FunDef(i, body) == [def_id |-> i, name |-> <<"f", i>>, body |-> body]
Batches ==
    UNION {{[i \in 1..n |-> FunDef(i, b[i])] : b \in [1..n -> BodyPool]} : n \in 1..MaxDefs}

----------------------------------------------------------------------------
(* The state machine: a body is chosen, simplify_exp is run on it, and run
   once more on what it returned *)

NONE == [k |-> "None"]
NoResult == [status |-> "none", defs |-> <<>>]

\* no step-by-step run and no run of rust_to_local_ids is under way
NoCalls == stack = <<>> /\ ended = "none"
NoIds == reordered = NONE /\ files_info = NONE /\ ordered = NONE /\ pc = NONE

Init ==
    /\ \/ input \in WindowInputs
       \/ input \in FreeInputs
       \/ input \in NestedInputs
       \/ input \in MultiInputs
       \/ input \in JumpInputs
       \/ input \in SwitchInputs
    /\ output = NONE
    /\ again = NONE
    /\ runs = 0
    /\ defs = <<>>
    /\ result = NoResult
    /\ env = NONE
    /\ orig = NONE
    /\ coll = NONE
    /\ NoCalls
    /\ NoIds

Simplify ==
    /\ runs = 0
    /\ output' = simplify_exp(input)
    /\ runs' = 1
    /\ UNCHANGED <<input, again, defs, result, env, orig, coll, callVars, idVars>>

SimplifyAgain ==
    /\ runs = 1
    /\ ~IsAbort(output)
    /\ again' = simplify_exp(output)
    /\ runs' = 2
    /\ UNCHANGED <<input, output, defs, result, env, orig, coll, callVars, idVars>>

Next == Simplify \/ SimplifyAgain

Spec == Init /\ [][Next]_vars

(* The batch entry point: simplify is run on a batch of definitions *)

InitBatch ==
    /\ input = NONE
    /\ output = NONE
    /\ again = NONE
    /\ runs = 0
    /\ defs \in Batches
    /\ result = NoResult
    /\ env = NONE
    /\ orig = NONE
    /\ coll = NONE
    /\ NoCalls
    /\ NoIds

SimplifyBatch ==
    /\ result.status = "none"
    /\ defs # <<>>
    /\ result' = simplify(defs)
    /\ UNCHANGED <<input, output, again, runs, defs, env, orig, coll, callVars, idVars>>

NextBatch == SimplifyBatch

SpecBatch == InitBatch /\ [][NextBatch]_vars

(* simplify_exp call by call: stack holds the arguments of the calls still to
   be made.  A call either panics, which ends the run, or hands over to the
   calls its own body makes, in the order the body makes them. *)

NoPanic(calls) == [panic |-> FALSE, calls |-> calls]
Panics == [panic |-> TRUE, calls |-> <<>>]

\* a variant whose rebuilt tail is the whole sequence again
window_calls_whole(exp1, exp2, exp3, exp4) ==
    LET c1 == check_if_binop_then_assert(exp1, exp2, exp3)
        c2 == check_if_assert_then_binop(exp1, exp2, exp3)
    IN IF c1 = "panic" THEN Panics
       ELSE IF c1 = "true" THEN NoPanic(<<exp4>>)
       ELSE IF c2 = "panic" THEN Panics
       ELSE IF c2 = "true" THEN NoPanic(<<exp4>>)
       ELSE NoPanic(<<exp1, Sequence(exp1, Sequence(exp2, Sequence(exp3, exp4)))>>)

\* the calls made for a sequence of at least four elements
window_calls(exp1, exp2, exp3, exp4) ==
    LET c1 == check_if_binop_then_assert(exp1, exp2, exp3)
        c2 == check_if_assert_then_binop(exp1, exp2, exp3)
    IN IF c1 = "panic" THEN Panics
       ELSE IF c1 = "true" THEN NoPanic(<<exp4>>)
       ELSE IF c2 = "panic" THEN Panics
       ELSE IF c2 = "true" THEN NoPanic(<<exp4>>)
       ELSE NoPanic(<<exp1, Sequence(exp2, Sequence(exp3, exp4))>>)

\* the calls of simplify_exp the body of simplify_exp(exp) makes
simplify_exp_calls(exp) ==
    CASE exp.k = "Statement" ->
            IF statement_is_faillible_binop(exp.st) THEN Panics ELSE NoPanic(<<>>)
      [] exp.k = "Switch" ->
            IF exp.targets.k = "If"
            THEN NoPanic(<<exp.targets.e1, exp.targets.e2>>)
            ELSE NoPanic([i \in 1..Len(exp.targets.targets) |-> exp.targets.targets[i][2]]
                         \o <<exp.targets.otherwise>>)
      [] exp.k = "Loop" -> NoPanic(<<exp.body>>)
      [] exp.k = "Sequence" ->
            IF exp.e2.k = "Sequence"
            THEN IF exp.e2.e2.k = "Sequence"
                 THEN window_calls(exp.e1, exp.e2.e1, exp.e2.e2.e1, exp.e2.e2.e2)
                 ELSE NoPanic(<<exp.e1, Sequence(exp.e2.e1, exp.e2.e2)>>)
            ELSE NoPanic(<<exp.e1, exp.e2>>)

NoRun ==
    /\ output = NONE
    /\ again = NONE
    /\ runs = 0
    /\ defs = <<>>
    /\ result = NoResult
    /\ env = NONE
    /\ orig = NONE
    /\ coll = NONE

InitCalls ==
    /\ \/ input \in WindowInputs
       \/ input \in FreeInputs
       \/ input \in NestedInputs
       \/ input \in MultiInputs
       \/ input \in JumpInputs
       \/ input \in SwitchInputs
    /\ NoRun
    /\ stack = <<input>>
    /\ ended = "no"
    /\ NoIds

\* the next call is made and does not panic
Call ==
    /\ ended = "no"
    /\ stack # <<>>
    /\ ~simplify_exp_calls(Head(stack)).panic
    /\ stack' = simplify_exp_calls(Head(stack)).calls \o Tail(stack)
    /\ UNCHANGED <<input, output, again, runs, defs, result, env, orig, coll, ended, idVars>>

\* the next call panics: the run is over
CallPanics ==
    /\ ended = "no"
    /\ stack # <<>>
    /\ simplify_exp_calls(Head(stack)).panic
    /\ stack' = <<>>
    /\ ended' = "aborted"
    /\ UNCHANGED <<input, output, again, runs, defs, result, env, orig, coll, idVars>>

\* no call is left: the outermost call returns
CallsReturn ==
    /\ ended = "no"
    /\ stack = <<>>
    /\ ended' = "returned"
    /\ UNCHANGED <<input, output, again, runs, defs, result, env, orig, coll, stack, idVars>>

NextCalls == Call \/ CallPanics \/ CallsReturn

\* the run is sequential code: a step that can be taken is taken
SpecCalls == InitCalls /\ [][NextCalls]_vars /\ WF_vars(NextCalls)

(* rust_to_local_ids.rs: the declaration groups of the compiler are walked in
   order and every declaration is given a fresh identifier of its kind; then
   the files are sorted and numbered. *)

NonRec(id) == [k |-> "NonRec", id |-> id]
Rec(ids) == [k |-> "Rec", ids |-> ids]
\* DeclarationGroup::Type / Fun / Global of a group
DeclarationGroup(kind, g) == [kind |-> kind, g |-> g]
\* AnyDeclId::Type / Fun / Global of an identifier: a key of the info maps
AnyDeclId(kind, id) == <<kind, id>>
DeclInfo(rid, is_transparent) == [rid |-> rid, is_transparent |-> is_transparent]

\* FileName and FileId::Id
FileName(kind, name) == [k |-> kind, name |-> name]
LocalId(id) == [k |-> "LocalId", id |-> id]
VirtualId(id) == [k |-> "VirtualId", id |-> id]

\* HashMap::insert: the value of an existing key is replaced
insert(map, key, value) ==
    [x \in DOMAIN map \cup {key} |-> IF x = key THEN value ELSE map[x]]

\* Generator::fresh_id: the identifier is the counter, which then moves on
fresh_id(counter) == [id |-> counter, counter |-> counter + 1]

\* a variant where every kind draws from the counter of the types
counter_of_shared(kind) == "type_counter"

\* the counter a kind draws its identifiers from
counter_of(kind) ==
    CASE kind = "Type" -> "type_counter"
      [] kind = "Fun" -> "fun_counter"
      [] kind = "Global" -> "global_counter"

\* the map a kind records its identifiers in
rid_to_id_of(kind) ==
    CASE kind = "Type" -> "type_rid_to_id"
      [] kind = "Fun" -> "fun_rid_to_id"
      [] kind = "Global" -> "global_rid_to_id"

\* add_type_info / add_function_info / add_global_info: src.get(..).unwrap()
\* panics when the declaration has no info
has_info(src, kind, rid) == AnyDeclId(kind, rid) \in DOMAIN src
\* a variant that records every declaration as transparent
add_info_transparent(src, dst, kind, rid, id) ==
    insert(dst, AnyDeclId(kind, id), DeclInfo(rid, TRUE))
add_info(src, dst, kind, rid, id) ==
    insert(dst, AnyDeclId(kind, id), DeclInfo(rid, src[AnyDeclId(kind, rid)].is_transparent))

\* the locals of rust_to_local_ids before its first loop
NewOrderedDecls ==
    [k |-> "OrderedDecls",
     files |-> <<>>, decls |-> <<>>, decls_info |-> <<>>,
     file_to_id |-> <<>>, id_to_file |-> <<>>,
     type_rid_to_id |-> <<>>, fun_rid_to_id |-> <<>>, global_rid_to_id |-> <<>>,
     type_counter |-> 0, fun_counter |-> 0, global_counter |-> 0]

\* one declaration: a fresh identifier, recorded in the map of its kind and
\* in the info map
translate_decl(o, src, kind, rid) ==
    LET f == fresh_id(o[counter_of(kind)])
    IN IF ~has_info(src, kind, rid) THEN ABORT
       ELSE [k |-> "Ok", id |-> f.id,
             o |-> [o EXCEPT ![counter_of(kind)] = f.counter,
                             ![rid_to_id_of(kind)] = insert(@, rid, f.id),
                             !.decls_info = add_info(src, @, kind, rid, f.id)]]

RECURSIVE translate_rec(_, _, _, _)
\* a variant that collects the identifiers of the members last first
translate_rec_reversed(o, src, kind, rids) ==
    IF Len(rids) = 0 THEN [k |-> "Ok", ids |-> <<>>, o |-> o]
    ELSE LET first == translate_decl(o, src, kind, Head(rids))
         IN IF IsAbort(first) THEN ABORT
            ELSE LET rest == translate_rec(first.o, src, kind, Tail(rids))
                 IN IF IsAbort(rest) THEN ABORT
                    ELSE [k |-> "Ok", ids |-> rest.ids \o <<first.id>>, o |-> rest.o]

\* the members of a Rec group, in order
translate_rec(o, src, kind, rids) ==
    IF Len(rids) = 0 THEN [k |-> "Ok", ids |-> <<>>, o |-> o]
    ELSE LET first == translate_decl(o, src, kind, Head(rids))
         IN IF IsAbort(first) THEN ABORT
            ELSE LET rest == translate_rec(first.o, src, kind, Tail(rids))
                 IN IF IsAbort(rest) THEN ABORT
                    ELSE [k |-> "Ok", ids |-> <<first.id>> \o rest.ids, o |-> rest.o]

\* the order of the file names (derived Ord: the variant, then the name)
FileRank(f) == CASE f.k = "Virtual" -> 0 [] f.k = "Local" -> 1 [] f.k = "NotReal" -> 2
FileLe(f, g) ==
    \/ FileRank(f) < FileRank(g)
    \/ FileRank(f) = FileRank(g) /\ f.name <= g.name

RECURSIVE SortedFiles(_)
\* files_info.keys().cloned().collect() followed by files.sort()
SortedFiles(S) ==
    IF S = {} THEN <<>>
    ELSE LET m == CHOOSE x \in S : \A y \in S : FileLe(x, y)
         IN <<m>> \o SortedFiles(S \ {m})

RECURSIVE number_files(_, _, _, _)
\* a variant that draws the indices of local and virtual files from one counter
number_files_onecounter(o, files, real_file_counter, virtual_file_counter) ==
    IF Len(files) = 0 THEN o
    ELSE LET file == Head(files)
         IN IF file.k = "NotReal" THEN ABORT
            ELSE LET f == fresh_id(real_file_counter)
                     id == IF file.k = "Local" THEN LocalId(f.id) ELSE VirtualId(f.id)
                 IN number_files(
                        [o EXCEPT !.file_to_id = insert(@, file, id),
                                  !.id_to_file = insert(@, id, file)],
                        Tail(files), f.counter, virtual_file_counter)

\* the loop over the sorted files; a NotReal file name is unimplemented!()
number_files(o, files, real_file_counter, virtual_file_counter) ==
    IF Len(files) = 0 THEN o
    ELSE LET file == Head(files)
         IN IF file.k = "NotReal" THEN ABORT
            ELSE LET f == fresh_id(IF file.k = "Local" THEN real_file_counter
                                   ELSE virtual_file_counter)
                     id == IF file.k = "Local" THEN LocalId(f.id) ELSE VirtualId(f.id)
                 IN number_files(
                        [o EXCEPT !.file_to_id = insert(@, file, id),
                                  !.id_to_file = insert(@, id, file)],
                        Tail(files),
                        IF file.k = "Local" THEN f.counter ELSE real_file_counter,
                        IF file.k = "Local" THEN virtual_file_counter ELSE f.counter)

\* the number of groups handed to rust_to_local_ids
MaxGroups == 3

Kinds == {"Type", "Fun", "Global"}
GroupPool ==
    {DeclarationGroup(kind, g) :
        kind \in Kinds, g \in {NonRec(1), Rec(<<2, 3>>), Rec(<<1, 2>>)}}
DeclsInputs == UNION {[1..n -> GroupPool] : n \in 0..MaxGroups}

\* the info of every declaration, and the same without the function 3
FullInfo ==
    [key \in {AnyDeclId(kind, rid) : kind \in Kinds, rid \in {1, 2, 3}} |->
        [is_transparent |-> key[2] # 2]]
PartialInfo ==
    [key \in DOMAIN FullInfo \ {AnyDeclId("Fun", 3)} |-> FullInfo[key]]

RealFiles == {FileName("Local", 2), FileName("Virtual", 1), FileName("Local", 1)}
UnrealFiles == {FileName("Local", 1), FileName("NotReal", 1)}

InitIds ==
    /\ input = NONE
    /\ NoRun
    /\ NoCalls
    /\ \E decls \in DeclsInputs :
          \/ reordered = [decls |-> decls, decls_info |-> FullInfo]
             /\ files_info = RealFiles
          \/ reordered = [decls |-> decls, decls_info |-> PartialInfo]
             /\ files_info = RealFiles
          \/ reordered = [decls |-> decls, decls_info |-> FullInfo]
             /\ files_info = UnrealFiles
    /\ ordered = NewOrderedDecls
    /\ pc = [at |-> "decls", i |-> 1]

\* one turn of the loop over reordered.decls, for a group of the kind and the
\* shape given
GroupStep(kind, shape) ==
    /\ pc # NONE
    /\ pc.at = "decls"
    /\ pc.i <= Len(reordered.decls)
    /\ LET decl == reordered.decls[pc.i]
       IN /\ decl.kind = kind
          /\ decl.g.k = shape
          /\ LET r == IF shape = "NonRec"
                      THEN translate_decl(ordered, reordered.decls_info, kind, decl.g.id)
                      ELSE translate_rec(ordered, reordered.decls_info, kind, decl.g.ids)
             IN IF IsAbort(r)
                THEN /\ pc' = [at |-> "aborted", i |-> pc.i]
                     /\ UNCHANGED ordered
                ELSE /\ ordered' =
                          [r.o EXCEPT !.decls =
                              Append(@, DeclarationGroup(kind,
                                            IF shape = "NonRec" THEN NonRec(r.id)
                                            ELSE Rec(r.ids)))]
                     /\ pc' = [pc EXCEPT !.i = @ + 1]
    /\ UNCHANGED <<input, output, again, runs, defs, result, env, orig, coll,
                   callVars, reordered, files_info>>

TypeNonRec == GroupStep("Type", "NonRec")
TypeRec == GroupStep("Type", "Rec")
FunNonRec == GroupStep("Fun", "NonRec")
FunRec == GroupStep("Fun", "Rec")
GlobalNonRec == GroupStep("Global", "NonRec")
GlobalRec == GroupStep("Global", "Rec")

\* after the loop over the groups: the files are sorted and numbered, and the
\* function returns
OrderFiles ==
    /\ pc # NONE
    /\ pc.at = "decls"
    /\ pc.i > Len(reordered.decls)
    /\ LET files == SortedFiles(files_info)
           o == number_files([ordered EXCEPT !.files = files], files, 0, 0)
       IN IF IsAbort(o)
          THEN /\ pc' = [at |-> "aborted", i |-> pc.i]
               /\ UNCHANGED ordered
          ELSE /\ ordered' = o
               /\ pc' = [at |-> "done", i |-> pc.i]
    /\ UNCHANGED <<input, output, again, runs, defs, result, env, orig, coll,
                   callVars, reordered, files_info>>

NextIds ==
    \/ TypeNonRec \/ TypeRec
    \/ FunNonRec \/ FunRec
    \/ GlobalNonRec \/ GlobalRec
    \/ OrderFiles

SpecIds == InitIds /\ [][NextIds]_vars

(* The classification of the binary operations: an assignment of a BinaryOp is
   chosen and the three classifying functions are applied to its operation *)

BinopOperands == {Copy(Pa), Move(Pb), Constant("u32", Scalar(FALSE, 0))}
BinopInputs ==
    {Statement(Assign(Pd, BinaryOp(op, op1, op2))) :
        op \in BinOp, op1 \in BinopOperands, op2 \in BinopOperands}

InitBinop ==
    /\ input \in BinopInputs
    /\ output = NONE
    /\ again = NONE
    /\ runs = 0
    /\ defs = <<>>
    /\ result = NoResult
    /\ env = NONE
    /\ orig = NONE
    /\ coll = NONE
    /\ NoCalls
    /\ NoIds

Classify ==
    /\ runs = 0
    /\ input.k = "Statement"
    /\ output' = [k |-> "Class",
                  after |-> binop_requires_assert_after(input.st.rv.binop),
                  before |-> binop_requires_assert_before(input.st.rv.binop),
                  can_fail |-> binop_can_fail(input.st.rv.binop),
                  faillible |-> statement_is_faillible_binop(input.st)]
    /\ runs' = 1
    /\ UNCHANGED <<input, again, defs, result, env, orig, coll, callVars, idVars>>

NextBinop == Classify

SpecBinop == InitBinop /\ [][NextBinop]_vars

(* The comparison of two places: a place, a projection element and a full
   place are chosen and check_places_similar_but_last_proj_elem is applied to
   them *)

\* the length of the projection of the place compared
MaxProj == 2

PlaceVars == {0, 1}
ProjectionElems == {Deref, Field(Tuple(2), 0), Field(Tuple(2), 1)}
Projections(n) == UNION {[1..m -> ProjectionElems] : m \in 0..n}
PlacesInputs ==
    {[k |-> "Places", place |-> Place(v, proj), pelem |-> pelem,
      full_place |-> Place(w, full)] :
        v \in PlaceVars, proj \in Projections(MaxProj), pelem \in ProjectionElems,
        w \in PlaceVars, full \in Projections(MaxProj + 1)}

InitPlaces ==
    /\ input \in PlacesInputs
    /\ output = NONE
    /\ again = NONE
    /\ runs = 0
    /\ defs = <<>>
    /\ result = NoResult
    /\ env = NONE
    /\ orig = NONE
    /\ coll = NONE
    /\ NoCalls
    /\ NoIds

CheckPlaces ==
    /\ runs = 0
    /\ input.k = "Places"
    /\ output' = [k |-> "Similar",
                  v |-> check_places_similar_but_last_proj_elem(
                            input.place, input.pelem, input.full_place)]
    /\ runs' = 1
    /\ UNCHANGED <<input, again, defs, result, env, orig, coll, callVars, idVars>>

NextPlaces == CheckPlaces

SpecPlaces == InitPlaces /\ [][NextPlaces]_vars

----------------------------------------------------------------------------
(* Execution of a straight-line body over unsigned integers of IntWidth bits.
   Before the pass a checked operation yields the pair (wrapped result,
   overflow flag) and Div / Rem are guarded by the assert in front of them;
   after the pass the same BinaryOp node aborts the program when it overflows
   or when its divisor is zero. *)

IntWidth == 3
Modulus == 2 ^ IntWidth

VInt(n) == [k |-> "Int", v |-> n]
VBool(b) == [k |-> "Bool", v |-> b]
VTuple(fields) == [k |-> "Tuple", fields |-> fields]
Bottom == [k |-> "Bottom"]
Failure == [k |-> "Fail"]

\* the value at a place: a variable or a field of a tuple held by a variable
ReadPlace(e, p) ==
    LET base == e[p.var_id]
    IN IF p.projection = <<>> THEN base
       ELSE IF /\ Len(p.projection) = 1 /\ p.projection[1].k = "Field"
               /\ base.k = "Tuple"
               /\ p.projection[1].fid + 1 \in DOMAIN base.fields
       THEN base.fields[p.projection[1].fid + 1]
       ELSE Bottom

WritePlace(e, p, v) ==
    LET base == e[p.var_id]
    IN IF p.projection = <<>> THEN [e EXCEPT ![p.var_id] = v]
       ELSE IF /\ Len(p.projection) = 1 /\ p.projection[1].k = "Field"
               /\ base.k = "Tuple"
               /\ p.projection[1].fid + 1 \in DOMAIN base.fields
       THEN [e EXCEPT ![p.var_id] =
                VTuple([base.fields EXCEPT ![p.projection[1].fid + 1] = v])]
       ELSE e

EvalOperand(e, op) ==
    IF op.k = "Constant"
    THEN IF op.cv.k = "ConstantValue" THEN VInt(op.cv.cv.v) ELSE Bottom
    ELSE ReadPlace(e, op.place)

\* a moved place no longer holds a value
MoveOut(e, op) == IF op.k = "Move" THEN WritePlace(e, op.place, Bottom) ELSE e

Exact(binop, x, y) ==
    CASE binop = "Add" -> x + y
      [] binop = "Sub" -> x - y
      [] binop = "Mul" -> x * y
      [] binop = "Shl" -> x * (2 ^ (y % IntWidth))
      [] binop = "Shr" -> x \div (2 ^ (y % IntWidth))

Overflows(binop, x, y) ==
    IF binop \in {"Shl", "Shr"} THEN y >= IntWidth
    ELSE Exact(binop, x, y) \notin 0..(Modulus - 1)

\* mode "checked": the body before the pass; mode "fallible": after it
EvalBinop(mode, binop, x, y) ==
    CASE binop \in {"Add", "Sub", "Mul", "Shl", "Shr"} ->
            IF mode = "checked"
            THEN VTuple(<<VInt(Exact(binop, x, y) % Modulus), VBool(Overflows(binop, x, y))>>)
            ELSE IF Overflows(binop, x, y) THEN Failure
                 ELSE VInt(Exact(binop, x, y) % Modulus)
      [] binop \in {"Div", "Rem"} ->
            IF y = 0 THEN (IF mode = "checked" THEN Bottom ELSE Failure)
            ELSE IF binop = "Div" THEN VInt(x \div y) ELSE VInt(x % y)
      [] binop = "Eq" -> VBool(x = y)
      [] binop = "Ne" -> VBool(x # y)
      [] OTHER -> Bottom

EvalRvalue(mode, e, rv) ==
    IF rv.k = "Use" THEN EvalOperand(e, rv.op)
    ELSE LET x == EvalOperand(e, rv.op1)
             y == EvalOperand(e, rv.op2)
         IN IF x.k = "Int" /\ y.k = "Int"
            THEN EvalBinop(mode, rv.binop, x.v, y.v)
            ELSE Bottom

MoveOutRvalue(e, rv) ==
    IF rv.k = "Use" THEN MoveOut(e, rv.op)
    ELSE MoveOut(MoveOut(e, rv.op1), rv.op2)

\* status "ok": the next statement runs; "returned": the body is over;
\* "fail": the program aborted; "stuck": a value was missing or ill-typed
Outcome(status, e) == [status |-> status, env |-> e]

ExecStatement(mode, e, st) ==
    CASE st.k = "Assign" ->
            LET v == EvalRvalue(mode, e, st.rv)
            IN IF v = Bottom THEN Outcome("stuck", e)
               ELSE IF v = Failure THEN Outcome("fail", e)
               ELSE Outcome("ok", WritePlace(MoveOutRvalue(e, st.rv), st.place, v))
      [] st.k = "Assert" ->
            LET c == EvalOperand(e, st.cond)
            IN IF c.k # "Bool" THEN Outcome("stuck", e)
               ELSE IF c.v = st.expected THEN Outcome("ok", MoveOut(e, st.cond))
               ELSE Outcome("fail", e)
      [] st.k = "Return" -> Outcome("returned", e)
      [] st.k = "Nop" -> Outcome("ok", e)
      [] OTHER -> Outcome("stuck", e)

RECURSIVE Exec(_, _, _)
Exec(mode, e, exp) ==
    CASE exp.k = "Sequence" ->
            LET r == Exec(mode, e, exp.e1)
            IN IF r.status = "ok" THEN Exec(mode, r.env, exp.e2) ELSE r
      [] exp.k = "Statement" -> ExecStatement(mode, e, exp.st)
      [] OTHER -> Outcome("stuck", e)

\* the operands a (variable 2) and b (variable 3) hold integers, the other
\* variables nothing yet
Envs ==
    {[v \in 0..5 |-> IF v = 2 THEN VInt(x) ELSE IF v = 3 THEN VInt(y) ELSE Bottom] :
        x \in 0..(Modulus - 1), y \in 0..(Modulus - 1)}

SemInputs ==
    {Chain(<<s1, s2, s3, StReturn>>) :
        s1 \in {StBinop(op) : op \in CheckedOps} \cup
               { StEqZero,
                 Statement(Assign(Ptmp, BinaryOp("Eq", Copy(Pb), Constant("u32", Scalar(FALSE, 1))))),
                 Statement(Assign(Ptmp, BinaryOp("Eq", Copy(Pa), Constant("u32", Scalar(FALSE, 0))))) },
        s2 \in {StCheck, StGuard},
        s3 \in {StTake, StDiv("Div"), StDiv("Rem")}}

InitSem ==
    /\ input \in SemInputs
    /\ output = NONE
    /\ again = NONE
    /\ runs = 0
    /\ defs = <<>>
    /\ result = NoResult
    /\ env \in Envs
    /\ orig = NONE
    /\ coll = NONE
    /\ NoCalls
    /\ NoIds

ExecOriginal ==
    /\ env # NONE
    /\ orig = NONE
    /\ orig' = Exec("checked", env, input)
    /\ UNCHANGED <<input, output, again, runs, defs, result, env, coll, callVars, idVars>>

ExecCollapsed ==
    /\ env # NONE
    /\ runs >= 1
    /\ ~IsAbort(output)
    /\ coll = NONE
    /\ coll' = Exec("fallible", env, output)
    /\ UNCHANGED <<input, output, again, runs, defs, result, env, orig, callVars, idVars>>

NextSem == Simplify \/ ExecOriginal \/ ExecCollapsed

SpecSem == InitSem /\ [][NextSem]_vars

----------------------------------------------------------------------------
(* Shapes the properties speak about, stated on the tree itself *)

Extend(place, pelem) == Place(place.var_id, Append(place.projection, pelem))

IsStatement(e) == e.k = "Statement"

\* e starts with three elements followed by at least one more
HasWindow(e) ==
    /\ e.k = "Sequence"
    /\ e.e2.k = "Sequence"
    /\ e.e2.e2.k = "Sequence"

\* t := BinaryOp(op, a, b); assert(move t.1 == false); dest := move t.0
OpThenCheck(s1, s2, s3) ==
    /\ IsStatement(s1) /\ IsStatement(s2) /\ IsStatement(s3)
    /\ s1.st.k = "Assign" /\ s1.st.rv.k = "BinaryOp"
    /\ s1.st.rv.binop \in CheckedOps
    /\ s2.st = AssertSt(Move(Extend(s1.st.place, Field(Tuple(2), 1))), FALSE)
    /\ s3.st.k = "Assign"
    /\ s3.st.rv = Use(Move(Extend(s1.st.place, Field(Tuple(2), 0))))

\* tmp := copy b == 0; assert(move tmp == false); dest := BinaryOp(op, a, move b)
CheckThenOp(s1, s2, s3) ==
    /\ IsStatement(s1) /\ IsStatement(s2) /\ IsStatement(s3)
    /\ s1.st.k = "Assign" /\ s1.st.rv.k = "BinaryOp"
    /\ s1.st.rv.binop = "Eq"
    /\ s1.st.rv.op1.k = "Copy"
    /\ s1.st.rv.op2 \in {Constant(ty, Scalar(sg, 0)) : ty \in {"u32", "i32"}, sg \in BOOLEAN}
    /\ s2.st = AssertSt(Move(s1.st.place), FALSE)
    /\ s3.st.k = "Assign" /\ s3.st.rv.k = "BinaryOp"
    /\ s3.st.rv.binop \in DivOps
    /\ s3.st.rv.op2 = Move(s1.st.rv.op1.place)

RECURSIVE StripNops(_)
\* the chain without its leading Nop statements
StripNops(e) ==
    IF e.k = "Sequence" /\ e.e1 = StNop THEN StripNops(e.e2) ELSE e

RECURSIVE Spine(_)
\* the elements of a chain, in order
Spine(e) == IF e.k = "Sequence" THEN <<e.e1>> \o Spine(e.e2) ELSE <<e>>

IsFallibleStatement(e) ==
    /\ IsStatement(e)
    /\ e.st.k = "Assign" /\ e.st.rv.k = "BinaryOp"
    /\ e.st.rv.binop \in CheckedOps \cup DivOps

\* the direct sub-trees of a tree
Branches(e) ==
    CASE e.k = "Sequence" -> {e.e1, e.e2}
      [] e.k = "Loop" -> {e.body}
      [] e.k = "Switch" ->
            IF e.targets.k = "If" THEN {e.targets.e1, e.targets.e2}
            ELSE {e.targets.targets[i][2] : i \in 1..Len(e.targets.targets)}
                 \cup {e.targets.otherwise}
      [] OTHER -> {}

RECURSIVE HasFallible(_)
\* some assignment of the tree is a fallible binary operation
HasFallible(e) == IsFallibleStatement(e) \/ \E b \in Branches(e) : HasFallible(b)

RECURSIVE Canonical(_)
\* no Sequence of the tree has a Sequence as its first component
Canonical(e) ==
    /\ e.k = "Sequence" => e.e1.k # "Sequence"
    /\ \A b \in Branches(e) : Canonical(b)

\* the input chain after its leading Nop statements, and its first window
W == StripNops(input)
W1 == W.e1
W2 == W.e2.e1
W3 == W.e2.e2.e1
W4 == W.e2.e2.e2

\* the chain is exactly three statements: a window with nothing after it
EndWindow(e) ==
    /\ e.k = "Sequence"
    /\ e.e2.k = "Sequence"
    /\ e.e2.e2.k = "Statement"

RECURSIVE Covered(_)
\* every fallible binary operation of the tree is the first statement of an
\* operation-then-check window or the third of a check-then-operation window,
\* the window being followed by at least one element
Covered(e) ==
    CASE e.k = "Statement" -> ~IsFallibleStatement(e)
      [] e.k = "Sequence" ->
            IF /\ HasWindow(e)
               /\ \/ OpThenCheck(e.e1, e.e2.e1, e.e2.e2.e1)
                  \/ CheckThenOp(e.e1, e.e2.e1, e.e2.e2.e1)
            THEN Covered(e.e2.e2.e2)
            ELSE Covered(e.e1) /\ Covered(e.e2)
      [] OTHER -> \A b \in Branches(e) : Covered(b)

----------------------------------------------------------------------------
(* Properties *)

(* C1: when a chain holds the run t := BinaryOp(op, a, b); assert(move t.1 ==
   false); dest := move t.0 with op in {Add, Sub, Mul, Shl, Shr}, followed by
   rest, simplify_exp returns Sequence(dest := BinaryOp(op, a, b),
   simplify_exp(rest)) (and panics when simplify_exp(rest) panics). *)
C1_OpThenCheckCollapsed ==
    (runs >= 1 /\ HasWindow(W) /\ OpThenCheck(W1, W2, W3)) =>
        StripNops(output) =
            SequenceOf(Statement(Assign(W3.st.place, W1.st.rv)), simplify_exp(W4))

C1_Witness ==
    /\ runs = 1 /\ HasWindow(W) /\ OpThenCheck(W1, W2, W3)
    /\ W1.st.rv.binop = "Shr"
    /\ input # W
    /\ ~IsAbort(output)
    /\ StripNops(output).e1 = Statement(Assign(Pd, BinaryOp("Shr", Copy(Pa), Copy(Pb))))

(* C2: when a chain holds the run tmp := copy b == 0; assert(move tmp ==
   false); dest := BinaryOp(op, a, move b) with op in {Div, Rem}, followed by
   rest, simplify_exp returns Sequence(s3, simplify_exp(rest)) with s3 the
   third statement unmodified. *)
C2_CheckThenOpCollapsed ==
    (runs >= 1 /\ HasWindow(W) /\ CheckThenOp(W1, W2, W3)) =>
        StripNops(output) = SequenceOf(W3, simplify_exp(W4))

C2_Witness ==
    /\ runs = 1 /\ HasWindow(W) /\ CheckThenOp(W1, W2, W3)
    /\ W3 = StDiv("Rem")
    /\ input # W
    /\ ~IsAbort(output)
    /\ StripNops(output).e1 = StDiv("Rem")

(* C3: an idiom that is the last three statements of a chain (nothing after
   it) is collapsed to its single assignment, exactly as an idiom followed
   by further statements. *)
C3_EndIdiomCollapsed ==
    (runs >= 1 /\ EndWindow(W)) =>
        /\ OpThenCheck(W1, W2, W.e2.e2) =>
              StripNops(output) = Statement(Assign(W.e2.e2.st.place, W1.st.rv))
        /\ CheckThenOp(W1, W2, W.e2.e2) => StripNops(output) = W.e2.e2

(* C4: whenever the simplifier returns a tree, running it on that tree
   returns the same tree. *)
C4_Idempotent == runs = 2 => again = output

(* C6: on a tree with no assignment of a BinaryOp in {Add, Sub, Mul, Shl, Shr,
   Div, Rem}, simplify_exp returns a tree equal to its input. *)
C6_IdentityWithoutFallible ==
    (runs >= 1 /\ ~HasFallible(input)) => output = input

C6_Witness ==
    /\ runs = 1 /\ ~HasFallible(input)
    /\ HasWindow(input)
    /\ input.e1 = StBinop("BitAnd") /\ input.e2.e1 = StCheck /\ input.e2.e2.e1 = StTake
    /\ output = input

\* the element at offset i of the chain assigns a checked operation and the
\* three-statement window it starts is not the idiom
MismatchAt(sp, i) ==
    /\ i + 2 <= Len(sp)
    /\ IsFallibleStatement(sp[i])
    /\ sp[i].st.rv.binop \in CheckedOps
    /\ ~OpThenCheck(sp[i], sp[i + 1], sp[i + 2])

(* C7 as stated: when the first statement of a window assigns a BinaryOp in
   {Add, Sub, Mul, Shl, Shr} and the window is not the operation-then-check
   shape, the simplifier returns a tree holding the three statements
   unchanged. *)
C7_MismatchUntouched ==
    (runs >= 1 /\ MismatchAt(Spine(W), 1)) =>
        /\ ~IsAbort(output)
        /\ Len(Spine(StripNops(output))) >= 3
        /\ \A i \in 1..3 : Spine(StripNops(output))[i] = Spine(W)[i]

(* C7 amended: when a statement of a chain assigns a BinaryOp in {Add, Sub,
   Mul, Shl, Shr} and the three-statement window it starts is not the
   operation-then-check shape, the simplifier panics and returns no tree. *)
C7_MismatchAborts ==
    (runs >= 1 /\ \E i \in 1..Len(Spine(input)) : MismatchAt(Spine(input), i)) =>
        IsAbort(output)

C7_Witness ==
    /\ runs = 1
    /\ HasWindow(input)
    /\ input.e1 = StBinop("Add") /\ input.e2.e1 = StCheck
    /\ input.e2.e2.e1 = Statement(Assign(Pd, Use(Move(Pt1))))
    /\ MismatchAt(Spine(input), 1)
    /\ IsAbort(output)

(* C8: a fallible binary operation that simplify_exp meets outside a collapsed
   window makes it panic: a tree is returned only if every such assignment
   of the input is statement 1 of a collapsed operation-then-check window or
   statement 3 of a collapsed check-then-operation window. *)
C8_UncollapsedAborts ==
    (runs >= 1 /\ ~Covered(input)) => IsAbort(output)

C8_Witness ==
    /\ runs = 1
    /\ input = Sequence(StNop, Sequence(StNop, StDiv("Div")))
    /\ IsAbort(output)

(* C10: when no Sequence of the input has a Sequence as its first component,
   no Sequence of a returned tree has one either. *)
C10_CanonicalPreserved ==
    /\ (runs >= 1 /\ Canonical(input) /\ ~IsAbort(output)) => Canonical(output)
    /\ (runs = 2 /\ Canonical(input) /\ ~IsAbort(again)) => Canonical(again)

C10_Witness ==
    /\ runs = 1 /\ Canonical(input) /\ ~IsAbort(output)
    /\ input.k = "Loop" /\ input.body.k = "Switch"
    /\ HasFallible(input)
    /\ output # input

\* definition i of the batch is simplified without a panic when taken alone
SimplifiesAlone(i) == ~IsAbort(simplify_exp(defs[i].body))

(* C9: when one definition of a batch makes the simplifier panic, every
   other definition of the batch is still simplified and returned with the
   output it has when processed alone. *)
C9_FailureIsolated ==
    result.status # "none" =>
        \A i \in 1..Len(defs) :
            SimplifiesAlone(i) =>
                /\ result.status = "returned"
                /\ i \in DOMAIN result.defs
                /\ result.defs[i] = [defs[i] EXCEPT !.body = simplify_exp(defs[i].body)]

Normal(o) == o.status \in {"ok", "returned"}

(* C5: for a matched idiom and every value of the operands, the body before
   the pass and the collapsed body agree: one aborts exactly when the other
   does, and when neither does the destination holds the same value. *)
C5_CollapseSound ==
    (orig # NONE /\ coll # NONE) =>
        /\ orig.status = "fail" <=> coll.status = "fail"
        /\ Normal(orig) <=> Normal(coll)
        /\ (Normal(orig) /\ Normal(coll)) =>
              ReadPlace(orig.env, W3.st.place) = ReadPlace(coll.env, W3.st.place)
        /\ (OpThenCheck(W1, W2, W3) \/ CheckThenOp(W1, W2, W3)) =>
              /\ Normal(orig) \/ orig.status = "fail"
              /\ Normal(orig) => ReadPlace(orig.env, W3.st.place).k = "Int"

C5_Witness ==
    /\ orig # NONE /\ coll # NONE
    /\ OpThenCheck(W1, W2, W3)
    /\ W1.st.rv.binop = "Mul"
    /\ env[2] = VInt(2) /\ env[3] = VInt(3)
    /\ orig.status = "returned" /\ coll.status = "returned"
    /\ ReadPlace(orig.env, Pd) = VInt(6)
    /\ ReadPlace(coll.env, Pd) = VInt(6)

----------------------------------------------------------------------------
(* Break / Continue and the loops around them *)

\* the direct sub-trees of a tree, in the order they are written
Children(e) ==
    CASE e.k = "Sequence" -> <<e.e1, e.e2>>
      [] e.k = "Loop" -> <<e.body>>
      [] e.k = "Switch" ->
            IF e.targets.k = "If" THEN <<e.targets.e1, e.targets.e2>>
            ELSE [i \in 1..Len(e.targets.targets) |-> e.targets.targets[i][2]]
                 \o <<e.targets.otherwise>>
      [] OTHER -> <<>>

IsJump(e) == IsStatement(e) /\ e.st.k \in {"Break", "Continue"}

RECURSIVE Jumps(_, _)
RECURSIVE JumpsOfAll(_, _)
\* the Break / Continue statements of a tree in the order they are written,
\* each with its index and the number of Loop nodes around it
Jumps(e, loops) ==
    IF IsJump(e) THEN <<[kind |-> e.st.k, n |-> e.st.n, loops |-> loops]>>
    ELSE JumpsOfAll(Children(e), IF e.k = "Loop" THEN loops + 1 ELSE loops)
JumpsOfAll(es, loops) ==
    IF Len(es) = 0 THEN <<>>
    ELSE Jumps(Head(es), loops) \o JumpsOfAll(Tail(es), loops)

\* every Break(n) / Continue(n) has n below the number of enclosing loops
JumpsInBound(e) ==
    \A i \in 1..Len(Jumps(e, 0)) : Jumps(e, 0)[i].n < Jumps(e, 0)[i].loops

(* C11: a tree returned by simplify_exp holds the same Break / Continue
   statements as its input, in the same order, with the same index and under
   the same number of Loop nodes; so when every index of the input is below
   the number of enclosing loops, every index of the output is too. *)
C11_JumpsPreserved ==
    (runs >= 1 /\ ~IsAbort(output)) =>
        /\ Jumps(output, 0) = Jumps(input, 0)
        /\ JumpsInBound(input) => JumpsInBound(output)

C11_Witness ==
    /\ runs = 1 /\ ~IsAbort(output)
    /\ input = Loop(Loop(Chain(<<StBinop("Add"), StCheck, StTake, Statement(Break(1))>>)))
    /\ output # input
    /\ JumpsInBound(input)
    /\ Jumps(output, 0) = <<[kind |-> "Break", n |-> 1, loops |-> 2]>>

----------------------------------------------------------------------------
(* The tree a run is to return, read off the input by the offsets of its
   idioms *)

\* the three elements at offset i of the chain are an idiom and an element
\* follows them
IdiomAt(sp, i) ==
    /\ i >= 1
    /\ i + 3 <= Len(sp)
    /\ \/ OpThenCheck(sp[i], sp[i + 1], sp[i + 2])
       \/ CheckThenOp(sp[i], sp[i + 1], sp[i + 2])

\* the single assignment the idiom at offset i stands for
CollapsedAt(sp, i) ==
    IF OpThenCheck(sp[i], sp[i + 1], sp[i + 2])
    THEN Statement(Assign(sp[i + 2].st.place, sp[i].st.rv))
    ELSE sp[i + 2]

RECURSIVE Expected(_)
\* what the element at offset i of a chain contributes to the result
Piece(sp, i) ==
    IF IdiomAt(sp, i) THEN <<CollapsedAt(sp, i)>>
    ELSE IF IdiomAt(sp, i - 1) \/ IdiomAt(sp, i - 2) THEN <<>>
    ELSE <<Expected(sp[i])>>

RECURSIVE Pieces(_, _)
Pieces(sp, i) == IF i > Len(sp) THEN <<>> ELSE Piece(sp, i) \o Pieces(sp, i + 1)

Expected(e) ==
    CASE e.k = "Sequence" -> Chain(Pieces(Spine(e), 1))
      [] e.k = "Loop" -> Loop(Expected(e.body))
      [] e.k = "Switch" ->
            IF e.targets.k = "If"
            THEN Switch(e.op, If(Expected(e.targets.e1), Expected(e.targets.e2)))
            ELSE Switch(e.op,
                        SwitchInt(e.targets.int_ty,
                                  [i \in 1..Len(e.targets.targets) |->
                                      <<e.targets.targets[i][1],
                                        Expected(e.targets.targets[i][2])>>],
                                  Expected(e.targets.otherwise)))
      [] OTHER -> e

\* the tree holds an idiom below a Loop or a Switch
RECURSIVE HasNestedIdiom(_, _)
HasNestedIdiom(e, nested) ==
    \/ /\ nested
       /\ e.k = "Sequence"
       /\ \E i \in 1..Len(Spine(e)) : IdiomAt(Spine(e), i)
    \/ \E i \in 1..Len(Children(e)) :
          HasNestedIdiom(Children(e)[i], nested \/ e.k \in {"Loop", "Switch"})

(* C12: an idiom followed by at least one statement is collapsed wherever it
   stands: in an arm of an If, in a target or the otherwise branch of a
   SwitchInt, in a Loop body, or in any nesting of these, the chain that holds
   it is rewritten as the same chain is at top level; a tree returned by
   simplify_exp is its input with every such idiom replaced by its single
   assignment and nothing else changed. *)
C12_NestedCollapsed ==
    (runs >= 1 /\ ~IsAbort(output)) => output = Expected(input)

C12_Witness ==
    /\ runs = 1 /\ ~IsAbort(output)
    /\ HasNestedIdiom(input, FALSE)
    /\ input.k = "Loop" /\ input.body.k = "Switch"
    /\ input.body.targets.k = "SwitchInt"
    /\ input.body.targets.otherwise =
          Chain(<<StEqZero, StGuard, StDiv("Div"), StReturn>>)
    /\ output.body.targets.otherwise = Chain(<<StDiv("Div"), StReturn>>)

\* the offsets of the idioms of a chain, and how many of them start before
\* offset i
IdiomOffsets(sp) == {i \in 1..Len(sp) : IdiomAt(sp, i)}
IdiomsBefore(sp, i) == Cardinality({j \in IdiomOffsets(sp) : j < i})

(* C13: in a chain, every offset at which three elements are an idiom
   followed by at least one more element is collapsed in the chain a single
   run returns: the returned chain is shorter by two elements for each idiom,
   and the assignment an idiom stands for is found at the idiom's offset less
   two for each idiom before it. *)
C13_EveryIdiomCollapsed ==
    (runs >= 1 /\ ~IsAbort(output) /\ input.k = "Sequence") =>
        LET sp == Spine(input)
            out == Spine(output)
        IN /\ Len(out) = Len(sp) - 2 * Cardinality(IdiomOffsets(sp))
           /\ \A i \in IdiomOffsets(sp) :
                 out[i - 2 * IdiomsBefore(sp, i)] = CollapsedAt(sp, i)

C13_Witness ==
    /\ runs = 1 /\ ~IsAbort(output)
    /\ input.k = "Sequence"
    /\ IdiomOffsets(Spine(input)) = {1, 5}
    /\ Spine(output) =
          <<StDiv("Div"), StNop,
            Statement(Assign(Pd, BinaryOp("Shl", Copy(Pa), Copy(Pb)))), StReturn>>

\* the element assigns the result of a checked operation
IsCheckedAssign(e) ==
    /\ IsStatement(e)
    /\ e.st.k = "Assign" /\ e.st.rv.k = "BinaryOp"
    /\ e.st.rv.binop \in {"Add", "Sub", "Mul", "Shl", "Shr"}

(* C14: simplify_exp returns a tree only if every element t := BinaryOp(op,
   _, _) of the chain with op in {Add, Sub, Mul, Shl, Shr} is followed by an
   assert with expected = false on Move of exactly t extended by
   Field(Tuple(2), 1), then by an assignment of Use(Move(p)) with p exactly t
   extended by Field(Tuple(2), 0); the returned chain then holds dest :=
   BinaryOp(op, _, _) in their place.  In every other case no tree is
   returned. *)
C14_CollapsedOnlyIfVerified ==
    (runs >= 1 /\ ~IsAbort(output)) =>
        LET sp == Spine(input)
            out == Spine(output)
        IN \A i \in 1..Len(sp) :
              IsCheckedAssign(sp[i]) =>
                 /\ i + 2 <= Len(sp)
                 /\ IsStatement(sp[i + 1])
                 /\ sp[i + 1].st.k = "Assert"
                 /\ sp[i + 1].st.expected = FALSE
                 /\ sp[i + 1].st.cond.k = "Move"
                 /\ sp[i + 1].st.cond.place.var_id = sp[i].st.place.var_id
                 /\ sp[i + 1].st.cond.place.projection =
                       sp[i].st.place.projection \o <<Field(Tuple(2), 1)>>
                 /\ IsStatement(sp[i + 2])
                 /\ sp[i + 2].st.k = "Assign"
                 /\ sp[i + 2].st.rv.k = "Use"
                 /\ sp[i + 2].st.rv.op.k = "Move"
                 /\ sp[i + 2].st.rv.op.place.var_id = sp[i].st.place.var_id
                 /\ sp[i + 2].st.rv.op.place.projection =
                       sp[i].st.place.projection \o <<Field(Tuple(2), 0)>>
                 /\ out[i - 2 * IdiomsBefore(sp, i)] =
                       Statement(Assign(sp[i + 2].st.place, sp[i].st.rv))

C14_Witness ==
    /\ runs = 1 /\ ~IsAbort(output)
    /\ input = Chain(<<Statement(Assign(Pq, BinaryOp("Add", Copy(Pa), Copy(Pb)))),
                       Statement(AssertSt(Move(Pq1), FALSE)),
                       Statement(Assign(Pd, Use(Move(Pq0)))),
                       StReturn>>)
    /\ output = Chain(<<Statement(Assign(Pd, BinaryOp("Add", Copy(Pa), Copy(Pb)))),
                        StReturn>>)

\* the element assigns the result of a division or a remainder
IsDivAssign(e) ==
    /\ IsStatement(e)
    /\ e.st.k = "Assign" /\ e.st.rv.k = "BinaryOp"
    /\ e.st.rv.binop \in {"Div", "Rem"}

(* C15: simplify_exp returns a tree only if every element dest :=
   BinaryOp(op, _, divisor) of the chain with op in {Div, Rem} comes right
   after tmp := BinaryOp(Eq, Copy(d), scalar constant 0) and an assert with
   expected = false on Move of exactly tmp, its divisor being Move of exactly
   d; the returned chain then holds the Div / Rem assignment unchanged in
   place of the three.  A non-zero constant, another compared place, another
   asserted place, a divisor given as Copy or as a constant: no tree is
   returned. *)
C15_DroppedOnlyIfVerified ==
    (runs >= 1 /\ ~IsAbort(output)) =>
        LET sp == Spine(input)
            out == Spine(output)
        IN \A i \in 1..Len(sp) :
              IsDivAssign(sp[i]) =>
                 /\ i >= 3
                 /\ IsStatement(sp[i - 2])
                 /\ sp[i - 2].st.k = "Assign"
                 /\ sp[i - 2].st.rv.k = "BinaryOp"
                 /\ sp[i - 2].st.rv.binop = "Eq"
                 /\ sp[i - 2].st.rv.op1.k = "Copy"
                 /\ sp[i - 2].st.rv.op2.k = "Constant"
                 /\ sp[i - 2].st.rv.op2.cv.k = "ConstantValue"
                 /\ sp[i - 2].st.rv.op2.cv.cv.k = "Scalar"
                 /\ sp[i - 2].st.rv.op2.cv.cv.v = 0
                 /\ IsStatement(sp[i - 1])
                 /\ sp[i - 1].st.k = "Assert"
                 /\ sp[i - 1].st.expected = FALSE
                 /\ sp[i - 1].st.cond = Move(sp[i - 2].st.place)
                 /\ sp[i].st.rv.op2 = Move(sp[i - 2].st.rv.op1.place)
                 /\ out[(i - 2) - 2 * IdiomsBefore(sp, i - 2)] = sp[i]

C15_Witness ==
    /\ runs = 1 /\ ~IsAbort(output)
    /\ input = Chain(<<Statement(Assign(Ptmp, BinaryOp("Eq", Copy(Pb),
                                                       Constant("i32", Scalar(TRUE, 0))))),
                       StGuard, StDiv("Div"), StReturn>>)
    /\ output = Chain(<<StDiv("Div"), StReturn>>)

(* C16: of the 16 binary operations, binop_requires_assert_after holds of
   exactly Add, Sub, Mul, Shl, Shr and binop_requires_assert_before of
   exactly Div, Rem; no operation is in both families; binop_can_fail holds
   of exactly the seven operations of the two families and of none of
   BitXor, BitAnd, BitOr, Eq, Lt, Le, Ne, Ge, Gt. *)
C16_Classification ==
    /\ Cardinality(BinOp) = 16
    /\ (runs >= 1 /\ output.k = "Class") =>
          LET op == input.st.rv.binop
          IN /\ output.after <=> op \in {"Add", "Sub", "Mul", "Shl", "Shr"}
             /\ output.before <=> op \in {"Div", "Rem"}
             /\ ~(output.after /\ output.before)
             /\ output.can_fail <=>
                   op \in {"Add", "Sub", "Mul", "Shl", "Shr", "Div", "Rem"}
             /\ op \in {"BitXor", "BitAnd", "BitOr", "Eq", "Lt", "Le", "Ne", "Ge", "Gt"}
                   => ~output.can_fail
             /\ output.faillible <=> output.can_fail

C16_Witness ==
    /\ runs = 1 /\ output.k = "Class"
    /\ input.st.rv.binop = "Shr"
    /\ output.after /\ ~output.before /\ output.can_fail

----------------------------------------------------------------------------
(* The shape of the switches *)

\* what a Switch node is apart from its branches: the discriminant, and for a
\* SwitchInt the integer type and the values in the order they are kept
SwitchShape(e) ==
    IF e.targets.k = "If"
    THEN [op |-> e.op, kind |-> "If"]
    ELSE [op |-> e.op, kind |-> "SwitchInt", int_ty |-> e.targets.int_ty,
          values |-> [i \in 1..Len(e.targets.targets) |-> e.targets.targets[i][1]]]

RECURSIVE Switches(_)
RECURSIVE SwitchesOfAll(_)
\* the shapes of the Switch nodes of a tree, in the order they are written
Switches(e) ==
    (IF e.k = "Switch" THEN <<SwitchShape(e)>> ELSE <<>>) \o SwitchesOfAll(Children(e))
SwitchesOfAll(es) ==
    IF Len(es) = 0 THEN <<>> ELSE Switches(Head(es)) \o SwitchesOfAll(Tail(es))

(* C17: a tree returned by simplify_exp holds the same Switch nodes as its
   input: each keeps its discriminant operand; an If keeps its then arm first
   and its else arm second; a SwitchInt keeps its integer type and the same
   values in the same order, each value with the branch it had; and every
   branch is the simplification of the branch that was in its position. *)
C17_SwitchShapeKept ==
    (runs >= 1 /\ ~IsAbort(output)) =>
        /\ Switches(output) = Switches(input)
        /\ input.k = "Switch" =>
              /\ output.k = "Switch"
              /\ output.op = input.op
              /\ output.targets.k = input.targets.k
              /\ input.targets.k = "If" =>
                    /\ output.targets.e1 = Expected(input.targets.e1)
                    /\ output.targets.e2 = Expected(input.targets.e2)
              /\ input.targets.k = "SwitchInt" =>
                    /\ output.targets.int_ty = input.targets.int_ty
                    /\ Len(output.targets.targets) = Len(input.targets.targets)
                    /\ \A i \in 1..Len(input.targets.targets) :
                          /\ output.targets.targets[i][1] = input.targets.targets[i][1]
                          /\ output.targets.targets[i][2] =
                                Expected(input.targets.targets[i][2])
                    /\ output.targets.otherwise = Expected(input.targets.otherwise)

C17_Witness ==
    /\ runs = 1 /\ ~IsAbort(output)
    /\ input.k = "Switch" /\ input.targets.k = "SwitchInt"
    /\ Len(input.targets.targets) = 3
    /\ output # input
    /\ output.op = Copy(Pa)
    /\ output.targets.int_ty = "u32"
    /\ [i \in 1..3 |-> output.targets.targets[i][1]] = <<SV(3), SV(1), SV(2)>>
    /\ output.targets.targets[1][2] =
          Chain(<<Statement(Assign(Pd, BinaryOp("Add", Copy(Pa), Copy(Pb)))), StReturn>>)
    /\ output.targets.targets[2][2] = StNop
    /\ output.targets.targets[3][2] = Chain(<<StDiv("Rem"), StReturn>>)

(* C18: when simplify returns, it returns as many definitions as it was
   given, in the same order; each is the input definition with its body
   replaced by simplify_exp of that body and nothing else changed, and is
   what simplify returns for that definition taken as a batch of its own. *)
C18_BatchMapped ==
    result.status = "returned" =>
        /\ Len(result.defs) = Len(defs)
        /\ \A i \in 1..Len(defs) :
              /\ DOMAIN result.defs[i] = DOMAIN defs[i]
              /\ result.defs[i].def_id = defs[i].def_id
              /\ result.defs[i].name = defs[i].name
              /\ result.defs[i].body = Expected(defs[i].body)
              /\ result.defs[i] = simplify(<<defs[i]>>).defs[1]

C18_Witness ==
    /\ result.status = "returned"
    /\ Len(defs) = 2
    /\ defs[1].body = Chain(<<StEqZero, StGuard, StDiv("Div"), StReturn>>)
    /\ defs[2].body.k = "Loop"
    /\ result.defs[1] = FunDef(1, Chain(<<StDiv("Div"), StReturn>>))
    /\ result.defs[2].def_id = 2
    /\ result.defs[2].body # defs[2].body

(* C19: every run of simplify_exp ends, by the return of its outermost call
   or by a panic, the rebuilding of the tail Sequence(s2, Sequence(s3, rest))
   of a window that is no idiom included; it ends by a return exactly when
   simplify_exp yields a tree. *)
C19_Terminates ==
    /\ <>(ended \in {"returned", "aborted"})
    /\ [](ended = "returned" => ~IsAbort(simplify_exp(input)))
    /\ [](ended = "aborted" => IsAbort(simplify_exp(input)))

C19_Witness ==
    /\ ended = "returned"
    /\ stack = <<>>
    /\ HasWindow(input)
    /\ ~IdiomAt(Spine(input), 1)
    /\ Len(Spine(input)) >= 5

----------------------------------------------------------------------------
(* The identifiers rust_to_local_ids hands out *)

MembersOf(g) == IF g.k = "NonRec" THEN <<g.id>> ELSE g.ids

RECURSIVE MembersOfKind(_, _)
\* the declarations of a kind in a list of groups, in the order of the walk
MembersOfKind(decls, kind) ==
    IF Len(decls) = 0 THEN <<>>
    ELSE (IF Head(decls).kind = kind THEN MembersOf(Head(decls).g) ELSE <<>>)
         \o MembersOfKind(Tail(decls), kind)

RidToId(kind) ==
    CASE kind = "Type" -> ordered.type_rid_to_id
      [] kind = "Fun" -> ordered.fun_rid_to_id
      [] kind = "Global" -> ordered.global_rid_to_id

Distinct(seq) == \A i, j \in 1..Len(seq) : seq[i] = seq[j] => i = j

(* C20: when rust_to_local_ids returns, the k-th declaration of each kind met
   in the walk of the groups (the members of a Rec group in order) has the
   k-th identifier of that kind, counted from 0 apart from the other two
   kinds; the map of the kind is defined on exactly the Rust ids of the kind;
   and when the Rust ids of the kind are all different, the map sends the
   k-th of them to the k-th identifier, is injective, and every identifier
   of the output groups is the image of exactly one Rust id. *)
C20_FreshSequentialIds ==
    (pc # NONE /\ pc.at = "done") =>
        \A kind \in {"Type", "Fun", "Global"} :
            LET rids == MembersOfKind(reordered.decls, kind)
                ids == MembersOfKind(ordered.decls, kind)
                m == RidToId(kind)
            IN /\ ids = [n \in 1..Len(rids) |-> n - 1]
               /\ DOMAIN m = {rids[n] : n \in 1..Len(rids)}
               /\ Distinct(rids) =>
                     /\ \A n \in 1..Len(rids) : m[rids[n]] = n - 1
                     /\ \A r1, r2 \in DOMAIN m : m[r1] = m[r2] => r1 = r2
                     /\ \A n \in 1..Len(ids) :
                           Cardinality({r \in DOMAIN m : m[r] = ids[n]}) = 1

C20_Witness ==
    /\ pc # NONE /\ pc.at = "done"
    /\ reordered.decls = <<DeclarationGroup("Type", NonRec(1)),
                           DeclarationGroup("Fun", Rec(<<1, 2>>)),
                           DeclarationGroup("Type", Rec(<<2, 3>>))>>
    /\ ordered.decls = <<DeclarationGroup("Type", NonRec(0)),
                         DeclarationGroup("Fun", Rec(<<0, 1>>)),
                         DeclarationGroup("Type", Rec(<<1, 2>>))>>
    /\ ordered.type_rid_to_id[3] = 2
    /\ ordered.fun_rid_to_id[2] = 1
    /\ DOMAIN ordered.global_rid_to_id = {}

\* the rid at offset n of the list is not met again further on
LastOccurrence(rids, n) == \A m \in (n + 1)..Len(rids) : rids[m] # rids[n]

(* C21: when rust_to_local_ids returns, the output decls has the length of
   the input group list; its i-th group has the kind and the shape (NonRec /
   Rec) of the i-th input group and, for a Rec group, as many members; and
   the members follow the order of the input: the identifier at each
   position is the one created for the Rust id at that position (its
   declaration info names that Rust id), and it is the one the map of the
   kind gives for that Rust id (for a Rust id listed more than once, at its
   last position, the map keeping the last identifier inserted). *)
C21_GroupingPreserved ==
    (pc # NONE /\ pc.at = "done") =>
        /\ Len(ordered.decls) = Len(reordered.decls)
        /\ \A i \in 1..Len(reordered.decls) :
              /\ ordered.decls[i].kind = reordered.decls[i].kind
              /\ ordered.decls[i].g.k = reordered.decls[i].g.k
              /\ Len(MembersOf(ordered.decls[i].g)) = Len(MembersOf(reordered.decls[i].g))
        /\ \A kind \in {"Type", "Fun", "Global"} :
              LET rids == MembersOfKind(reordered.decls, kind)
                  ids == MembersOfKind(ordered.decls, kind)
              IN /\ Len(ids) = Len(rids)
                 /\ \A n \in 1..Len(rids) :
                       /\ AnyDeclId(kind, ids[n]) \in DOMAIN ordered.decls_info
                       /\ ordered.decls_info[AnyDeclId(kind, ids[n])].rid = rids[n]
                       /\ LastOccurrence(rids, n) => ids[n] = RidToId(kind)[rids[n]]

C21_Witness ==
    /\ pc # NONE /\ pc.at = "done"
    /\ reordered.decls = <<DeclarationGroup("Global", Rec(<<2, 3>>)),
                           DeclarationGroup("Fun", NonRec(1)),
                           DeclarationGroup("Global", NonRec(1))>>
    /\ ordered.decls = <<DeclarationGroup("Global", Rec(<<0, 1>>)),
                         DeclarationGroup("Fun", NonRec(0)),
                         DeclarationGroup("Global", NonRec(2))>>
    /\ ordered.global_rid_to_id[2] = 0
    /\ ordered.global_rid_to_id[3] = 1
    /\ ordered.global_rid_to_id[1] = 2

\* every declaration of the group has an entry in the input info map
GroupHasInfo(decl) ==
    \A n \in 1..Len(MembersOf(decl.g)) :
        has_info(reordered.decls_info, decl.kind, MembersOf(decl.g)[n])

(* C22: when rust_to_local_ids returns, every identifier of the output decls
   has an entry in decls_info, whose rid is the Rust id the identifier was
   created from and whose is_transparent is the flag of that Rust id in the
   input info map; and the loop never gets past a group one declaration of
   which has no entry in the input info map, so that the function does not
   return for such an input. *)
C22_DeclInfoFaithful ==
    /\ (pc # NONE /\ pc.at = "done") =>
          \A kind \in {"Type", "Fun", "Global"} :
             LET rids == MembersOfKind(reordered.decls, kind)
                 ids == MembersOfKind(ordered.decls, kind)
             IN /\ Len(ids) = Len(rids)
                /\ \A n \in 1..Len(ids) :
                      /\ AnyDeclId(kind, ids[n]) \in DOMAIN ordered.decls_info
                      /\ ordered.decls_info[AnyDeclId(kind, ids[n])] =
                            DeclInfo(rids[n],
                                     reordered.decls_info[AnyDeclId(kind, rids[n])].is_transparent)
    /\ (pc # NONE /\ pc.at \in {"decls", "done"}) =>
          \A i \in 1..(pc.i - 1) : GroupHasInfo(reordered.decls[i])
    /\ (pc # NONE /\ pc.at = "done") =>
          \A i \in 1..Len(reordered.decls) : GroupHasInfo(reordered.decls[i])

C22_Witness ==
    /\ pc # NONE /\ pc.at = "done"
    /\ reordered.decls_info = FullInfo
    /\ reordered.decls = <<DeclarationGroup("Fun", NonRec(1)),
                           DeclarationGroup("Fun", Rec(<<2, 3>>))>>
    /\ ordered.decls_info = (AnyDeclId("Fun", 0) :> DeclInfo(1, TRUE))
                            @@ (AnyDeclId("Fun", 1) :> DeclInfo(2, FALSE))
                            @@ (AnyDeclId("Fun", 2) :> DeclInfo(3, TRUE))

\* the files of the kind given, and the indices file_to_id gives them
FilesOfKind(kind) == {f \in files_info : f.k = kind}
IndicesOfKind(kind) == {ordered.file_to_id[f].id : f \in FilesOfKind(kind)}

(* C23: when rust_to_local_ids returns, files lists the input file names, each
   once, in increasing order; file_to_id has one entry per file and
   id_to_file one entry per identifier given, and each is the inverse of the
   other; a local file has a LocalId and a virtual file a VirtualId, the
   indices of each kind being 0, 1, ... in the order of files, from a counter
   of the kind's own; and the function does not return when a file name is
   NotReal. *)
C23_FileBijection ==
    (pc # NONE /\ pc.at = "done") =>
        LET files == ordered.files
            file_to_id == ordered.file_to_id
            id_to_file == ordered.id_to_file
        IN /\ Len(files) = Cardinality(files_info)
           /\ {files[n] : n \in 1..Len(files)} = files_info
           /\ \A m, n \in 1..Len(files) : m < n => FileLe(files[m], files[n])
           /\ DOMAIN file_to_id = files_info
           /\ DOMAIN id_to_file = {file_to_id[f] : f \in files_info}
           /\ Cardinality(DOMAIN id_to_file) = Cardinality(files_info)
           /\ \A f \in files_info : id_to_file[file_to_id[f]] = f
           /\ \A id \in DOMAIN id_to_file : file_to_id[id_to_file[id]] = id
           /\ \A f \in files_info :
                 /\ f.k # "NotReal"
                 /\ f.k = "Local" => file_to_id[f].k = "LocalId"
                 /\ f.k = "Virtual" => file_to_id[f].k = "VirtualId"
           /\ \A kind \in {"Local", "Virtual"} :
                 IndicesOfKind(kind) = 0..(Cardinality(FilesOfKind(kind)) - 1)
           /\ \A m, n \in 1..Len(files) :
                 (m < n /\ files[m].k = files[n].k)
                     => file_to_id[files[m]].id < file_to_id[files[n]].id

C23_Witness ==
    /\ pc # NONE /\ pc.at = "done"
    /\ files_info = RealFiles
    /\ Len(ordered.files) = 3
    /\ ordered.file_to_id[FileName("Local", 1)] = LocalId(0)
    /\ ordered.file_to_id[FileName("Local", 2)] = LocalId(1)
    /\ ordered.file_to_id[FileName("Virtual", 1)] = VirtualId(0)
    /\ ordered.id_to_file[LocalId(0)] = FileName("Local", 1)
    /\ ordered.id_to_file[VirtualId(0)] = FileName("Virtual", 1)

(* C24: check_places_similar_but_last_proj_elem(place, pelem, full_place) is
   true exactly when full_place is place extended by pelem: the same variable,
   a projection one element longer, equal to the projection of place on
   every index of it, and ending with pelem; with projections of the same
   length it is false. *)
C24_SimilarIffExtended ==
    (runs = 1 /\ output.k = "Similar") =>
        LET place == input.place
            pelem == input.pelem
            full_place == input.full_place
            n == Len(place.projection)
        IN /\ output.v = (full_place = Place(place.var_id, Append(place.projection, pelem)))
           /\ output.v = (/\ place.var_id = full_place.var_id
                          /\ Len(full_place.projection) = n + 1
                          /\ \A i \in 1..n : place.projection[i] = full_place.projection[i]
                          /\ full_place.projection[n + 1] = pelem)
           /\ Len(full_place.projection) = n => ~ output.v

C24_Witness ==
    /\ runs = 1
    /\ output.k = "Similar"
    /\ output.v
    /\ input.place = Place(1, <<Deref, Field(Tuple(2), 0)>>)
    /\ input.pelem = Field(Tuple(2), 1)
    /\ input.full_place = Place(1, <<Deref, Field(Tuple(2), 0), Field(Tuple(2), 1)>>)

====
